---- MODULE Spec2Model ----
(***************************************************************************)
(* Recipe API: recipes, tags and ingredients owned by authenticated users, *)
(* and user registration / profile management.                             *)
(*                                                                         *)
(* The datastore is a set of rows per table; every HTTP handler is one     *)
(* action that reads the request, changes the tables the way the view and  *)
(* serializer code does, and leaves the response in `response`.  The       *)
(* server handles one request at a time: a handler runs when no response   *)
(* is pending, and Respond hands the pending response to the client.       *)
(***************************************************************************)
EXTENDS Integers, Sequences, FiniteSets, TLC

VARIABLES
    recipe,        \* Recipe table: set of rows [id, user, title]
    label,         \* Tag / Ingredient tables: [kind -> set of rows [id, user, name]]
    assoc,         \* recipe.tags / recipe.ingredients: [kind -> set of <<recipe id, label id>>]
    next_id,       \* auto-increment primary keys, per table
    response,      \* the response of the request being answered (NoResponse when idle)
    users,         \* user table: set of rows [email, name, password]
    user_response, \* the response of the user API
    inflight       \* requests being executed concurrently: [worker -> request state]

vars == <<recipe, label, assoc, next_id, response, users, user_response, inflight>>

recipe_vars == <<recipe, label, assoc, next_id, response>>
user_vars   == <<users, user_response>>

-----------------------------------------------------------------------------
(* Bounds of the model *)

MaxRecipes == 2          \* recipe rows ever created
MaxTags == 2             \* tag rows ever created
MaxIngredients == 1      \* ingredient rows ever created
MaxWorkers == 2          \* requests executing concurrently

-----------------------------------------------------------------------------
(* Values *)

Users == {"u1", "u2"}
Kinds == {"tags", "ingredients"}
Names == {"Dessert", "Vegan"}

\* An optional value: <<>> when the key is absent, <<v>> when it is present.
Opt(S) == {<<>>} \cup {<<v>> : v \in S}
Present(o) == Len(o) = 1
Val(o) == o[1]

MaxLabels(kind) == IF kind = "tags" THEN MaxTags ELSE MaxIngredients

Range(s) == {s[i] : i \in 1..Len(s)}

\* Lexicographic order of the label names in the model.
NameRank(n) == CASE n = "Dessert" -> 1 [] n = "Salt" -> 2 [] n = "Vegan" -> 3

-----------------------------------------------------------------------------
(* Query-string parsing *)

\* A query-string value is a sequence of one-character strings.
Digits == {"0", "1", "2", "3", "4", "5", "6", "7", "8", "9"}

DigitVal(c) ==
    CASE c = "0" -> 0 [] c = "1" -> 1 [] c = "2" -> 2 [] c = "3" -> 3
      [] c = "4" -> 4 [] c = "5" -> 5 [] c = "6" -> 6 [] c = "7" -> 7
      [] c = "8" -> 8 [] c = "9" -> 9

\* str.split(','): the pieces between the commas; always at least one piece.
RECURSIVE split(_)
split(qs) ==
    IF \A i \in 1..Len(qs) : qs[i] # ","
    THEN <<qs>>
    ELSE LET i == CHOOSE j \in 1..Len(qs) :
                     qs[j] = "," /\ \A k \in 1..(j - 1) : qs[k] # ","
         IN  <<SubSeq(qs, 1, i - 1)>> \o split(SubSeq(qs, i + 1, Len(qs)))

\* str.strip() of the blanks int() ignores.
RECURSIVE strip(_)
strip(s) ==
    IF s = <<>> THEN s
    ELSE IF Head(s) = " " THEN strip(Tail(s))
    ELSE IF s[Len(s)] = " " THEN strip(SubSeq(s, 1, Len(s) - 1))
    ELSE s

RECURSIVE digits_value(_)
digits_value(s) ==
    IF s = <<>> THEN 0
    ELSE 10 * digits_value(SubSeq(s, 1, Len(s) - 1)) + DigitVal(s[Len(s)])

\* int(str): [ok, value]; ok = FALSE stands for the ValueError int() raises.
int(str_id) ==
    LET s == strip(str_id)
        signed == s # <<>> /\ Head(s) \in {"-", "+"}
        body == IF signed THEN Tail(s) ELSE s
    IN  IF body # <<>> /\ \A i \in 1..Len(body) : body[i] \in Digits
        THEN [ok |-> TRUE,
              value |-> IF signed /\ Head(s) = "-"
                        THEN 0 - digits_value(body) ELSE digits_value(body)]
        ELSE [ok |-> FALSE, value |-> 0]

\* RecipeViewSet._params_to_ints: [ok, ints]; ok = FALSE when int() raises.
params_to_ints(qs) ==
    LET pieces == split(qs)
    IN  IF \A i \in 1..Len(pieces) : int(pieces[i]).ok
        THEN [ok |-> TRUE, ints |-> [i \in 1..Len(pieces) |-> int(pieces[i]).value]]
        ELSE [ok |-> FALSE, ints |-> <<>>]

-----------------------------------------------------------------------------
(* The datastore *)

\* The row of a table with primary key pk (the table holds at most one).
Row(rows, pk) == CHOOSE r \in rows : r.id = pk

\* related manager: the labels of one kind attached to a recipe
related(links, rid) == {l[2] : l \in {m \in links : m[1] = rid}}

\* Tag.objects.create / Ingredient.objects.create: a new row under the next
\* primary key.  The tables carry no uniqueness constraint on (user, name).
objects_create(rows, u, n, pk) == rows \cup {[id |-> pk, user |-> u, name |-> n]}

\* get_or_create without user=auth_user in the lookup.
get_or_create_any_user(rows, u, n, pk) ==
    LET found == {r \in rows : r.name = n}
    IN  IF Cardinality(found) = 1
        THEN [ok |-> TRUE, created |-> FALSE, obj |-> (CHOOSE r \in found : TRUE).id,
              rows |-> rows]
        ELSE IF found = {}
        THEN [ok |-> TRUE, created |-> TRUE, obj |-> pk,
              rows |-> objects_create(rows, u, n, pk)]
        ELSE [ok |-> FALSE, created |-> FALSE, obj |-> 0, rows |-> rows]

\* QuerySet.get_or_create(user=u, name=n): get() the matching row; none
\* matches: create one; several match: get() raises MultipleObjectsReturned.
get_or_create(rows, u, n, pk) ==
    LET found == {r \in rows : r.user = u /\ r.name = n}
    IN  IF Cardinality(found) = 1
        THEN [ok |-> TRUE, created |-> FALSE, obj |-> (CHOOSE r \in found : TRUE).id,
              rows |-> rows]
        ELSE IF found = {}
        THEN [ok |-> TRUE, created |-> TRUE, obj |-> pk,
              rows |-> objects_create(rows, u, n, pk)]
        ELSE [ok |-> FALSE, created |-> FALSE, obj |-> 0, rows |-> rows]

\* The loop of _get_or_create_tags / _get_or_create_ingredients over the
\* nested descriptors, on the rows, links and next primary key of one kind.
\* Every statement commits as it runs: when get_or_create raises, the rows
\* and links written so far stay.
RECURSIVE get_or_create_loop(_, _, _, _)
get_or_create_loop(auth_user, names, rid, st) ==
    IF names = <<>> \/ ~st.ok THEN st
    ELSE LET g == get_or_create(st.rows, auth_user, Head(names), st.next)
         IN  IF ~g.ok THEN [st EXCEPT !.ok = FALSE]
             ELSE get_or_create_loop(auth_user, Tail(names), rid,
                      [ok |-> TRUE,
                       rows |-> g.rows,
                       links |-> st.links \cup {<<rid, g.obj>>},
                       next |-> IF g.created THEN st.next + 1 ELSE st.next])

get_or_create_tags(auth_user, tags, rid, st) ==
    get_or_create_loop(auth_user, tags, rid, st)

get_or_create_ingredients(auth_user, ingredients, rid, st) ==
    get_or_create_loop(auth_user, ingredients, rid, st)

\* The state of one kind of label, as the loops above take it.
KindState(kind, lab, asc, nxt) ==
    [ok |-> TRUE, rows |-> lab[kind], links |-> asc[kind], next |-> nxt[kind]]

-----------------------------------------------------------------------------
(* Querysets *)

\* Recipe.objects.all(): one query row per recipe; a filter through a
\* many-to-many relation joins it, giving one row per matching related row.
objects_all == {[id |-> r.id, user |-> r.user, tags |-> 0, ingredients |-> 0] : r \in recipe}

\* queryset.filter(tags__id__in=ids) / queryset.filter(ingredients__id__in=ids)
filter_id_in(queryset, kind, ids) ==
    {[p[1] EXCEPT ![kind] = p[2][2]] :
        p \in {x \in queryset \X assoc[kind] : x[2][1] = x[1].id /\ x[2][2] \in ids}}

\* The owner filter left out.
filter_user_missing(queryset, u) == queryset

\* queryset.filter(user=u)
filter_user(queryset, u) == {q \in queryset : q.user = u}

\* queryset.order_by('-id'): the recipe id of every query row, highest first.
RECURSIVE order_by_id_desc(_)
order_by_id_desc(queryset) ==
    IF queryset = {} THEN <<>>
    ELSE LET q == CHOOSE x \in queryset : \A y \in queryset : y.id <= x.id
         IN  <<q.id>> \o order_by_id_desc(queryset \ {q})

\* distinct() left out: joined rows stay duplicated.
distinct_missing(ordered) == ordered

\* .distinct(): every selected row once, the order kept.
RECURSIVE distinct(_)
distinct(ordered) ==
    IF ordered = <<>> THEN <<>>
    ELSE LET front == SubSeq(ordered, 1, Len(ordered) - 1)
             last == ordered[Len(ordered)]
         IN  IF last \in Range(front) THEN distinct(front)
             ELSE distinct(front) \o <<last>>

\* RecipeViewSet.get_queryset for the caller and the query parameters `tags`
\* and `ingredients` (optional query-string values): [ok, ids].  ok = FALSE
\* when _params_to_ints raises; an empty value is falsy and filters nothing.
get_queryset(u, query) ==
    LET use_tags == Present(query.tags) /\ Val(query.tags) # <<>>
        use_ingredients == Present(query.ingredients) /\ Val(query.ingredients) # <<>>
        tag_ids == IF use_tags THEN params_to_ints(Val(query.tags))
                   ELSE [ok |-> TRUE, ints |-> <<>>]
        ingredient_ids == IF use_ingredients THEN params_to_ints(Val(query.ingredients))
                          ELSE [ok |-> TRUE, ints |-> <<>>]
        q0 == objects_all
        q1 == IF use_tags THEN filter_id_in(q0, "tags", Range(tag_ids.ints)) ELSE q0
        q2 == IF use_ingredients
              THEN filter_id_in(q1, "ingredients", Range(ingredient_ids.ints)) ELSE q1
    IN  IF ~tag_ids.ok \/ ~ingredient_ids.ok
        THEN [ok |-> FALSE, ids |-> <<>>]
        ELSE [ok |-> TRUE, ids |-> distinct(order_by_id_desc(filter_user(q2, u)))]

\* int(self.request.query_params.get('assigned_only', 0)): the default 0 is an int.
assigned_only_int(query) ==
    IF Present(query.assigned_only) THEN int(Val(query.assigned_only))
    ELSE [ok |-> TRUE, value |-> 0]

\* bool(n)
bool(n) == n # 0

\* queryset.filter(recipe__isnull=False): joined with the recipes a label is
\* attached to, one query row per attachment.
filter_recipe_notnull(queryset, kind) ==
    {[p[1] EXCEPT !.recipe = p[2][1]] :
        p \in {x \in queryset \X assoc[kind] : x[2][2] = x[1].id}}

\* queryset.order_by('-name'): every order of the query rows in which names
\* do not increase (the datastore picks the order of rows with equal names).
order_by_name_desc(queryset) ==
    {[i \in 1..Cardinality(queryset) |-> s[i].id] :
        s \in {t \in [1..Cardinality(queryset) -> queryset] :
                  /\ \A i, j \in 1..Cardinality(queryset) : i # j => t[i] # t[j]
                  /\ \A i, j \in 1..Cardinality(queryset) :
                        i < j => NameRank(t[i].name) >= NameRank(t[j].name)}}

\* BaseRecipeAttrViewSet.get_queryset: [ok, results]; results is the set of
\* id sequences the query may return; ok = FALSE when int() raises.
attr_get_queryset(kind, u, query) ==
    LET n == assigned_only_int(query)
        assigned_only == bool(n.value)
        q0 == {[id |-> l.id, user |-> l.user, name |-> l.name, recipe |-> 0] : l \in label[kind]}
        q1 == IF assigned_only THEN filter_recipe_notnull(q0, kind) ELSE q0
    IN  IF ~n.ok THEN [ok |-> FALSE, results |-> {<<>>}]
        ELSE [ok |-> TRUE,
              results |-> {distinct(s) : s \in order_by_name_desc(filter_user(q1, u))}]

-----------------------------------------------------------------------------
(* Serializers *)

\* TagSerializer / IngredientSerializer: fields id and name
label_representation(rows, links, rid) ==
    {[id |-> l.id, name |-> l.name] : l \in {r \in rows : r.id \in related(links, rid)}}

\* RecipeDetailSerializer / RecipeSerializer: the recipe with its nested labels
recipe_representation(rec, lab, asc, rid) ==
    [id |-> rid,
     title |-> Row(rec, rid).title,
     tags |-> label_representation(lab["tags"], asc["tags"], rid),
     ingredients |-> label_representation(lab["ingredients"], asc["ingredients"], rid)]

-----------------------------------------------------------------------------
(* Requests and responses of the recipe API *)

NoResponse ==
    [op |-> "none", kind |-> "none", user |-> "none", pk |-> 0,
     query |-> <<>>, data |-> <<>>, status |-> 0, body |-> <<>>]

Idle == response.op = "none"

Reply(op, kind, u, pk, query, data, status, body) ==
    [op |-> op, kind |-> kind, user |-> u, pk |-> pk,
     query |-> query, data |-> data, status |-> status, body |-> body]

\* The query parameters of a recipe request: optional query-string values.
Query(tags, ingredients) == [tags |-> tags, ingredients |-> ingredients]

\* Query strings sent to the recipe list: no filter, an empty value, one id,
\* several ids, both filters, and malformed values (a letter, an empty
\* element, a trailing comma).
ListQueries ==
    { Query(<<>>, <<>>),
      Query(<< <<>> >>, <<>>),
      Query(<< <<"1">> >>, <<>>),
      Query(<< <<"1", ",", "2">> >>, <<>>),
      Query(<<>>, << <<"1">> >>),
      Query(<< <<"2", ",", "1">> >>, << <<"1">> >>),
      Query(<< <<"a">> >>, <<>>),
      Query(<< <<"1", ",", ",", "2">> >>, <<>>),
      Query(<< <<"2", ",">> >>, <<>>),
      Query(<<>>, << <<"1", ",", "a">> >>) }

\* Query strings sent along with a detail request.
DetailQueries ==
    { Query(<<>>, <<>>),
      Query(<< <<"1">> >>, <<>>),
      Query(<< <<"a">> >>, <<>>) }

\* The query parameter of a tag / ingredient request.
AttrQuery(assigned_only) == [assigned_only |-> assigned_only]

\* `assigned_only` absent, 0, 1, other integers, and a word.
AttrListQueries ==
    { AttrQuery(<<>>),
      AttrQuery(<< <<"0">> >>),
      AttrQuery(<< <<"1">> >>),
      AttrQuery(<< <<"2">> >>),
      AttrQuery(<< <<"-", "1">> >>),
      AttrQuery(<< <<"t", "r", "u", "e">> >>) }

AttrDetailQueries ==
    { AttrQuery(<<>>),
      AttrQuery(<< <<"1">> >>),
      AttrQuery(<< <<"t", "r", "u", "e">> >>) }

IngredientNames == {"Salt"}

NamesOf(kind) == IF kind = "tags" THEN Names ELSE IngredientNames

\* A recipe payload: optional title, optional nested tags and ingredients.
Data(title, tags, ingredients) ==
    [title |-> title, tags |-> tags, ingredients |-> ingredients]

\* Payloads of recipe create and update requests.
RecipeData ==
    { Data(<<"Stew">>, <<>>, <<>>),
      Data(<<>>, <<>>, <<>>),
      Data(<<"Stew">>, << <<"Vegan">> >>, <<>>),
      Data(<<"Stew">>, << <<"Vegan", "Dessert">> >>, <<>>),
      Data(<<"Stew">>, << <<"Dessert", "Dessert">> >>, << <<"Salt">> >>),
      Data(<<>>, << <<>> >>, <<>>),
      Data(<<>>, <<>>, << <<"Salt">> >>),
      Data(<<>>, <<>>, << <<>> >>),
      Data(<<>>, << <<"Dessert">> >>, << <<>> >>) }

LabelData(kind) == [name : Opt(NamesOf(kind))]

-----------------------------------------------------------------------------
(* Recipe handlers *)

\* GenericAPIView.get_object over RecipeViewSet.get_queryset:
\* 500 when the queryset raises, 404 when pk is not in it, else 200.
get_object(u, pk, query) ==
    LET qs == get_queryset(u, query)
    IN  IF ~qs.ok THEN 500
        ELSE IF pk \notin Range(qs.ids) THEN 404
        ELSE 200

\* The body of an error response: nothing for 404, the exception for 500.
error_body(status) == IF status = 500 THEN <<[error |-> "ValueError"]>> ELSE <<>>

\* GET /recipes/
RecipeList(u, query) ==
    /\ Idle
    /\ LET qs == get_queryset(u, query)
       IN  response' =
             IF qs.ok
             THEN Reply("list", "recipes", u, 0, query, <<>>, 200,
                        [i \in 1..Len(qs.ids) |->
                            recipe_representation(recipe, label, assoc, qs.ids[i])])
             ELSE Reply("list", "recipes", u, 0, query, <<>>, 500, <<[error |-> "ValueError"]>>)
    /\ UNCHANGED <<recipe, label, assoc, next_id, user_vars, inflight>>

\* GET /recipes/{pk}/
RecipeRetrieve(u, pk, query) ==
    /\ Idle
    /\ LET found == get_object(u, pk, query)
       IN  response' =
             Reply("retrieve", "recipes", u, pk, query, <<>>, found,
                   IF found = 200
                   THEN <<recipe_representation(recipe, label, assoc, pk)>>
                   ELSE error_body(found))
    /\ UNCHANGED <<recipe, label, assoc, next_id, user_vars, inflight>>

\* RecipeSerializer.create after perform_create passed user=request.user:
\* the tables after the writes, and whether the handler ran to its end.
serializer_create(u, data) ==
    LET rid == next_id["recipes"]
        tags == IF Present(data.tags) THEN Val(data.tags) ELSE <<>>
        ingredients == IF Present(data.ingredients) THEN Val(data.ingredients) ELSE <<>>
        t == get_or_create_tags(u, tags, rid, KindState("tags", label, assoc, next_id))
        i == IF t.ok
             THEN get_or_create_ingredients(u, ingredients, rid,
                      KindState("ingredients", label, assoc, next_id))
             ELSE [KindState("ingredients", label, assoc, next_id) EXCEPT !.ok = FALSE]
    IN  [ok |-> i.ok,
         recipe |-> recipe \cup {[id |-> rid, user |-> u, title |-> Val(data.title)]},
         label |-> [tags |-> t.rows, ingredients |-> i.rows],
         assoc |-> [tags |-> t.links, ingredients |-> i.links],
         next_id |-> [recipes |-> rid + 1, tags |-> t.next, ingredients |-> i.next]]

\* The primary keys a handler hands out stay within the tables' bounds.
WithinBounds(nxt) ==
    /\ nxt["recipes"] <= MaxRecipes + 1
    /\ nxt["tags"] <= MaxTags + 1
    /\ nxt["ingredients"] <= MaxIngredients + 1

\* POST /recipes/
RecipeCreate(u, data) ==
    /\ Idle
    /\ IF ~Present(data.title)
       THEN \* serializer.is_valid fails: title is required
            /\ response' = Reply("create", "recipes", u, 0, <<>>, data, 400, <<>>)
            /\ UNCHANGED <<recipe, label, assoc, next_id>>
       ELSE LET w == serializer_create(u, data)
            IN  /\ WithinBounds(w.next_id)
                /\ recipe' = w.recipe
                /\ label' = w.label
                /\ assoc' = w.assoc
                /\ next_id' = w.next_id
                /\ response' =
                     IF w.ok
                     THEN Reply("create", "recipes", u, next_id["recipes"], <<>>, data, 201,
                                <<recipe_representation(w.recipe, w.label, w.assoc,
                                                        next_id["recipes"])>>)
                     ELSE Reply("create", "recipes", u, 0, <<>>, data, 500,
                                <<[error |-> "MultipleObjectsReturned"]>>)
    /\ UNCHANGED <<user_vars, inflight>>

\* instance.tags.clear() / instance.ingredients.clear()
clear(links, rid) == {l \in links : l[1] # rid}

\* RecipeSerializer.update testing `if tags:` instead of `if tags is not None:`
\* (an empty list is then treated like an omitted field).
serializer_update_truthy(u, pk, data) ==
    LET t0 == KindState("tags", label, assoc, next_id)
        t == IF Present(data.tags) /\ Val(data.tags) # <<>>
             THEN get_or_create_tags(u, Val(data.tags), pk,
                      [t0 EXCEPT !.links = clear(t0.links, pk)])
             ELSE t0
        i0 == KindState("ingredients", label, assoc, next_id)
        i == IF ~t.ok THEN [i0 EXCEPT !.ok = FALSE]
             ELSE IF Present(data.ingredients) /\ Val(data.ingredients) # <<>>
             THEN get_or_create_ingredients(u, Val(data.ingredients), pk,
                      [i0 EXCEPT !.links = clear(i0.links, pk)])
             ELSE i0
    IN  [ok |-> i.ok,
         recipe |-> IF i.ok /\ Present(data.title)
                    THEN {IF r.id = pk THEN [r EXCEPT !.title = Val(data.title)] ELSE r :
                             r \in recipe}
                    ELSE recipe,
         label |-> [tags |-> t.rows, ingredients |-> i.rows],
         assoc |-> [tags |-> t.links, ingredients |-> i.links],
         next_id |-> [recipes |-> next_id["recipes"], tags |-> t.next,
                      ingredients |-> i.next]]

\* RecipeSerializer.update on the instance get_object returned.
serializer_update(u, pk, data) ==
    LET t0 == KindState("tags", label, assoc, next_id)
        t == IF Present(data.tags)
             THEN get_or_create_tags(u, Val(data.tags), pk,
                      [t0 EXCEPT !.links = clear(t0.links, pk)])
             ELSE t0
        i0 == KindState("ingredients", label, assoc, next_id)
        i == IF ~t.ok THEN [i0 EXCEPT !.ok = FALSE]
             ELSE IF Present(data.ingredients)
             THEN get_or_create_ingredients(u, Val(data.ingredients), pk,
                      [i0 EXCEPT !.links = clear(i0.links, pk)])
             ELSE i0
    IN  [ok |-> i.ok,
         recipe |-> IF i.ok /\ Present(data.title)
                    THEN {IF r.id = pk THEN [r EXCEPT !.title = Val(data.title)] ELSE r :
                             r \in recipe}
                    ELSE recipe,
         label |-> [tags |-> t.rows, ingredients |-> i.rows],
         assoc |-> [tags |-> t.links, ingredients |-> i.links],
         next_id |-> [recipes |-> next_id["recipes"], tags |-> t.next,
                      ingredients |-> i.next]]

\* PATCH /recipes/{pk}/
RecipeUpdate(u, pk, query, data) ==
    /\ Idle
    /\ LET found == get_object(u, pk, query)
       IN  IF found # 200
           THEN /\ response' = Reply("update", "recipes", u, pk, query, data, found, error_body(found))
                /\ UNCHANGED <<recipe, label, assoc, next_id>>
           ELSE LET w == serializer_update(u, pk, data)
                IN  /\ WithinBounds(w.next_id)
                    /\ recipe' = w.recipe
                    /\ label' = w.label
                    /\ assoc' = w.assoc
                    /\ next_id' = w.next_id
                    /\ response' =
                         IF w.ok
                         THEN Reply("update", "recipes", u, pk, query, data, 200,
                                    <<recipe_representation(w.recipe, w.label, w.assoc, pk)>>)
                         ELSE Reply("update", "recipes", u, pk, query, data, 500,
                                    <<[error |-> "MultipleObjectsReturned"]>>)
    /\ UNCHANGED <<user_vars, inflight>>

\* DELETE /recipes/{pk}/
RecipeDestroy(u, pk, query) ==
    /\ Idle
    /\ LET found == get_object(u, pk, query)
       IN  IF found # 200
           THEN /\ response' = Reply("destroy", "recipes", u, pk, query, <<>>, found, error_body(found))
                /\ UNCHANGED <<recipe, assoc>>
           ELSE /\ recipe' = {r \in recipe : r.id # pk}
                /\ assoc' = [k \in Kinds |-> clear(assoc[k], pk)]
                /\ response' = Reply("destroy", "recipes", u, pk, query, <<>>, 204, <<>>)
    /\ UNCHANGED <<label, next_id, user_vars, inflight>>

-----------------------------------------------------------------------------
(* Tag and ingredient handlers *)

\* GenericAPIView.get_object over BaseRecipeAttrViewSet.get_queryset
attr_get_object(kind, u, pk, query) ==
    LET qs == attr_get_queryset(kind, u, query)
    IN  IF ~qs.ok THEN 500
        ELSE IF \A s \in qs.results : pk \notin Range(s) THEN 404
        ELSE 200

\* GET /tags/, GET /ingredients/
AttrList(kind, u, query) ==
    /\ Idle
    /\ LET qs == attr_get_queryset(kind, u, query)
       IN  IF qs.ok
           THEN \E ids \in qs.results :
                   response' = Reply("list", kind, u, 0, query, <<>>, 200,
                       [i \in 1..Len(ids) |->
                           [id |-> ids[i], name |-> Row(label[kind], ids[i]).name]])
           ELSE response' = Reply("list", kind, u, 0, query, <<>>, 500, <<[error |-> "ValueError"]>>)
    /\ UNCHANGED <<recipe, label, assoc, next_id, user_vars, inflight>>

\* PATCH /tags/{pk}/, PATCH /ingredients/{pk}/
AttrUpdate(kind, u, pk, query, data) ==
    /\ Idle
    /\ LET found == attr_get_object(kind, u, pk, query)
       IN  IF found # 200
           THEN /\ response' = Reply("update", kind, u, pk, query, data, found, error_body(found))
                /\ UNCHANGED label
           ELSE LET name == IF Present(data.name) THEN Val(data.name)
                            ELSE Row(label[kind], pk).name
                IN  /\ label' = [label EXCEPT ![kind] =
                           {IF l.id = pk THEN [l EXCEPT !.name = name] ELSE l : l \in @}]
                    /\ response' = Reply("update", kind, u, pk, query, data, 200,
                                         <<[id |-> pk, name |-> name]>>)
    /\ UNCHANGED <<recipe, assoc, next_id, user_vars, inflight>>

\* DELETE /tags/{pk}/, DELETE /ingredients/{pk}/
AttrDestroy(kind, u, pk, query) ==
    /\ Idle
    /\ LET found == attr_get_object(kind, u, pk, query)
       IN  IF found # 200
           THEN /\ response' = Reply("destroy", kind, u, pk, query, <<>>, found, error_body(found))
                /\ UNCHANGED <<label, assoc>>
           ELSE /\ label' = [label EXCEPT ![kind] = {l \in @ : l.id # pk}]
                /\ assoc' = [assoc EXCEPT ![kind] = {l \in @ : l[2] # pk}]
                /\ response' = Reply("destroy", kind, u, pk, query, <<>>, 204, <<>>)
    /\ UNCHANGED <<recipe, next_id, user_vars, inflight>>

\* The response reaches the client; the server takes the next request.
Respond ==
    /\ ~Idle
    /\ response' = NoResponse
    /\ UNCHANGED <<recipe, label, assoc, next_id, user_vars, inflight>>

-----------------------------------------------------------------------------
(* User API *)

Emails == {"ann@example.com", "bob@example.com"}
UserNames == {"Ann", "Bob"}
Passwords == {"abcd", "abcde", "secret"}

\* extra_kwargs: min_length of the password field
min_length == 5

\* write_only left off the password field.
write_only_missing == {}

\* extra_kwargs: the fields marked write_only
write_only == {"password"}

\* Meta.fields
fields == {"email", "password", "name"}

\* set_password / create_user: the password is stored as a hash of it.
make_password(raw) == <<"pbkdf2", raw>>

\* ModelSerializer.to_representation: the readable fields of the instance
to_representation(instance) == [f \in fields \ write_only |-> instance[f]]

\* serializer.is_valid: the names of the fields in error.  A password shorter
\* than min_length, or an email another user holds, is rejected.
field_errors(data, self_id) ==
    {f \in {"password"} : Present(data.password) /\ Len(Val(data.password)) < min_length}
    \cup
    {f \in {"email"} : Present(data.email) /\
        \E x \in users : x.id # self_id /\ x.email = Val(data.email)}

UserReply(op, u, data, status, body) ==
    [op |-> op, user |-> u, data |-> data, status |-> status, body |-> body]

UserData == [email : Opt(Emails), password : Opt(Passwords), name : Opt(UserNames)]

\* UserSerializer.create: create_user(**validated_data)
user_create(data, pk) ==
    [id |-> pk, email |-> Val(data.email), name |-> Val(data.name),
     password |-> make_password(Val(data.password))]

\* UserSerializer.update: password popped, the other fields assigned, the
\* password hashed and saved when one was given.
user_update(instance, data) ==
    LET password == data.password
        user == [instance EXCEPT
                    !.email = IF Present(data.email) THEN Val(data.email) ELSE @,
                    !.name = IF Present(data.name) THEN Val(data.name) ELSE @]
    IN  IF Present(password) /\ Val(password) # ""
        THEN [user EXCEPT !.password = make_password(Val(password))]
        ELSE user

\* POST /users/ (CreateUserView): every field is required.
CreateUser(data) ==
    /\ Present(data.email) /\ Present(data.password) /\ Present(data.name)
    /\ LET errors == field_errors(data, 0)
           pk == Cardinality(users) + 1
       IN  IF errors # {}
           THEN /\ user_response' = UserReply("create", 0, data, 400, [f \in errors |-> "invalid"])
                /\ UNCHANGED users
           ELSE /\ users' = users \cup {user_create(data, pk)}
                /\ user_response' = UserReply("create", pk, data, 201,
                                              to_representation(user_create(data, pk)))
    /\ UNCHANGED <<recipe_vars, inflight>>

\* GET /users/me/ (ManageUserView.get_object: the authenticated user)
RetrieveUser(pk) ==
    /\ \E instance \in users :
          /\ instance.id = pk
          /\ user_response' = UserReply("retrieve", pk, <<>>, 200, to_representation(instance))
    /\ UNCHANGED <<users, recipe_vars, inflight>>

\* PATCH /users/me/
UpdateUser(pk, data) ==
    /\ \E instance \in users :
          /\ instance.id = pk
          /\ LET errors == field_errors(data, pk)
             IN  IF errors # {}
                 THEN /\ user_response' =
                            UserReply("update", pk, data, 400, [f \in errors |-> "invalid"])
                      /\ UNCHANGED users
                 ELSE /\ users' = (users \ {instance}) \cup {user_update(instance, data)}
                      /\ user_response' = UserReply("update", pk, data, 200,
                                              to_representation(user_update(instance, data)))
    /\ UNCHANGED <<recipe_vars, inflight>>

NextUser ==
    \/ \E d \in UserData : CreateUser(d)
    \/ \E pk \in 1..Cardinality(Emails) : RetrieveUser(pk)
    \/ \E pk \in 1..Cardinality(Emails), d \in UserData : UpdateUser(pk, d)

-----------------------------------------------------------------------------
(* Recipe create and update requests served concurrently.  Each worker runs *)
(* RecipeSerializer.create or RecipeSerializer.update one datastore         *)
(* statement at a time; statements of different workers interleave.         *)

Workers == 1..MaxWorkers

IdleWorker == [pc |-> "idle", user |-> "none", rid |-> 0, todo |-> <<>>, obj |-> 0,
               title |-> <<>>, failed |-> FALSE]

\* The statements of one _get_or_create_tags / _get_or_create_ingredients loop.
resolves(kind, names) == [i \in 1..Len(names) |-> [op |-> "resolve", kind |-> kind, name |-> names[i]]]

\* The statements RecipeSerializer.create runs after Recipe.objects.create.
create_statements(data) ==
    resolves("tags", IF Present(data.tags) THEN Val(data.tags) ELSE <<>>)
    \o resolves("ingredients", IF Present(data.ingredients) THEN Val(data.ingredients) ELSE <<>>)

\* The statements RecipeSerializer.update runs before instance.save().
update_statements(data) ==
    (IF Present(data.tags)
     THEN <<[op |-> "clear", kind |-> "tags", name |-> "none"]>> \o resolves("tags", Val(data.tags))
     ELSE <<>>)
    \o
    (IF Present(data.ingredients)
     THEN <<[op |-> "clear", kind |-> "ingredients", name |-> "none"]>>
          \o resolves("ingredients", Val(data.ingredients))
     ELSE <<>>)

\* Rows of one kind the statements still to run may insert.
Pending(todo, kind) ==
    Cardinality({i \in 1..Len(todo) : todo[i].op = "resolve" /\ todo[i].kind = kind})

RECURSIVE SumPending(_, _)
SumPending(ws, kind) ==
    IF ws = {} THEN 0
    ELSE LET w == CHOOSE x \in ws : TRUE
         IN  Pending(inflight[w].todo, kind) + SumPending(ws \ {w}, kind)

\* The primary keys left suffice for the statements in flight and todo.
Reserve(todo) ==
    \A kind \in Kinds :
        next_id[kind] - 1 + SumPending(Workers, kind) + Pending(todo, kind) <= MaxLabels(kind)

\* POST /recipes/ reaches RecipeSerializer.create: Recipe.objects.create
BeginCreate(w, u, data) ==
    /\ inflight[w].pc = "idle"
    /\ Present(data.title)
    /\ next_id["recipes"] <= MaxRecipes
    /\ Reserve(create_statements(data))
    /\ recipe' = recipe \cup {[id |-> next_id["recipes"], user |-> u, title |-> Val(data.title)]}
    /\ next_id' = [next_id EXCEPT !["recipes"] = @ + 1]
    /\ inflight' = [inflight EXCEPT ![w] =
          [pc |-> "run", user |-> u, rid |-> next_id["recipes"],
           todo |-> create_statements(data), obj |-> 0, title |-> <<>>, failed |-> FALSE]]
    /\ UNCHANGED <<label, assoc, response, user_vars>>

\* PATCH /recipes/{pk}/ reaches RecipeSerializer.update with the caller's recipe
BeginUpdate(w, u, pk, data) ==
    /\ inflight[w].pc = "idle"
    /\ get_object(u, pk, Query(<<>>, <<>>)) = 200
    /\ Reserve(update_statements(data))
    /\ inflight' = [inflight EXCEPT ![w] =
          [pc |-> "run", user |-> u, rid |-> pk,
           todo |-> update_statements(data), obj |-> 0, title |-> data.title,
           failed |-> FALSE]]
    /\ UNCHANGED <<recipe, label, assoc, next_id, response, user_vars>>

\* instance.tags.clear() / instance.ingredients.clear()
Clear(w) ==
    LET me == inflight[w]
    IN  /\ me.pc = "run" /\ me.todo # <<>> /\ Head(me.todo).op = "clear"
        /\ assoc' = [assoc EXCEPT ![Head(me.todo).kind] = clear(@, me.rid)]
        /\ inflight' = [inflight EXCEPT ![w].todo = Tail(@)]
        /\ UNCHANGED <<recipe, label, next_id, response, user_vars>>

\* get_or_create, first statement: get(user=auth_user, name=...)
Get(w) ==
    LET me == inflight[w]
        kind == Head(me.todo).kind
        found == {r \in label[kind] : r.user = me.user /\ r.name = Head(me.todo).name}
    IN  /\ me.pc = "run" /\ me.todo # <<>> /\ Head(me.todo).op = "resolve"
        /\ inflight' = [inflight EXCEPT ![w] =
              IF Cardinality(found) = 1
              THEN [me EXCEPT !.pc = "add", !.obj = (CHOOSE r \in found : TRUE).id]
              ELSE IF found = {}
              THEN [me EXCEPT !.pc = "create"]
              ELSE [IdleWorker EXCEPT !.failed = TRUE]]
        /\ UNCHANGED <<recipe, label, assoc, next_id, response, user_vars>>

\* get_or_create, second statement: create(user=auth_user, name=...)
Create(w) ==
    LET me == inflight[w]
        kind == Head(me.todo).kind
    IN  /\ me.pc = "create"
        /\ label' = [label EXCEPT ![kind] =
              objects_create(@, me.user, Head(me.todo).name, next_id[kind])]
        /\ next_id' = [next_id EXCEPT ![kind] = @ + 1]
        /\ inflight' = [inflight EXCEPT ![w] = [me EXCEPT !.pc = "add", !.obj = next_id[kind]]]
        /\ UNCHANGED <<recipe, assoc, response, user_vars>>

\* recipe.tags.add(tag_obj) / recipe.ingredients.add(ingredient_obj)
Add(w) ==
    LET me == inflight[w]
        kind == Head(me.todo).kind
    IN  /\ me.pc = "add"
        /\ assoc' = [assoc EXCEPT ![kind] = @ \cup {<<me.rid, me.obj>>}]
        /\ inflight' = [inflight EXCEPT ![w] = [me EXCEPT !.pc = "run", !.todo = Tail(@)]]
        /\ UNCHANGED <<recipe, label, next_id, response, user_vars>>

\* The end of the handler: instance.save() of an update, and the response.
Finish(w) ==
    LET me == inflight[w]
    IN  /\ me.pc = "run" /\ me.todo = <<>>
        /\ recipe' = IF Present(me.title)
                     THEN {IF r.id = me.rid THEN [r EXCEPT !.title = Val(me.title)] ELSE r :
                              r \in recipe}
                     ELSE recipe
        /\ inflight' = [inflight EXCEPT ![w] = IdleWorker]
        /\ UNCHANGED <<label, assoc, next_id, response, user_vars>>

NextConcurrent ==
    \/ \E w \in Workers, u \in Users, d \in RecipeData : BeginCreate(w, u, d)
    \/ \E w \in Workers, u \in Users, pk \in 1..MaxRecipes, d \in RecipeData :
          BeginUpdate(w, u, pk, d)
    \/ \E w \in Workers : Clear(w)
    \/ \E w \in Workers : Get(w)
    \/ \E w \in Workers : Create(w)
    \/ \E w \in Workers : Add(w)
    \/ \E w \in Workers : Finish(w)

-----------------------------------------------------------------------------
(* Specification of the recipe API, one request at a time *)

Init ==
    /\ recipe = {}
    /\ label = [k \in Kinds |-> {}]
    /\ assoc = [k \in Kinds |-> {}]
    /\ next_id = [recipes |-> 1, tags |-> 1, ingredients |-> 1]
    /\ response = NoResponse
    /\ users = {}
    /\ user_response = UserReply("none", 0, <<>>, 0, <<>>)
    /\ inflight = [w \in Workers |-> IdleWorker]

Next ==
    \/ \E u \in Users, q \in ListQueries : RecipeList(u, q)
    \/ \E u \in Users, pk \in 1..MaxRecipes, q \in DetailQueries : RecipeRetrieve(u, pk, q)
    \/ \E u \in Users, d \in RecipeData : RecipeCreate(u, d)
    \/ \E u \in Users, pk \in 1..MaxRecipes, q \in DetailQueries, d \in RecipeData :
          RecipeUpdate(u, pk, q, d)
    \/ \E u \in Users, pk \in 1..MaxRecipes, q \in DetailQueries : RecipeDestroy(u, pk, q)
    \/ \E k \in Kinds, u \in Users, q \in AttrListQueries : AttrList(k, u, q)
    \/ \E k \in Kinds, u \in Users, q \in AttrDetailQueries :
          \E pk \in 1..MaxLabels(k), d \in LabelData(k) : AttrUpdate(k, u, pk, q, d)
    \/ \E k \in Kinds, u \in Users, q \in AttrDetailQueries :
          \E pk \in 1..MaxLabels(k) : AttrDestroy(k, u, pk, q)
    \/ Respond

Spec == Init /\ [][Next]_vars

SpecUser == Init /\ [][NextUser]_vars

SpecConcurrent == Init /\ [][NextConcurrent]_vars

-----------------------------------------------------------------------------
(* Properties *)

\* The table a response is about.
TableOf(kind) == IF kind = "recipes" THEN recipe ELSE label[kind]

\* An element of a comma-separated list that is an integer literal.
IsInteger(piece) ==
    LET s == strip(piece)
        body == IF s # <<>> /\ Head(s) \in {"-", "+"} THEN Tail(s) ELSE s
    IN  body # <<>> /\ \A i \in 1..Len(body) : body[i] \in Digits

\* A filter value with an element that is not an integer.
Malformed(param) ==
    /\ Present(param)
    /\ Val(param) # <<>>
    /\ \E i \in 1..Len(split(Val(param))) : ~IsInteger(split(Val(param))[i])

\* The ids a filter parameter names (none when it is absent or empty).
FilterIds(param) ==
    IF Present(param) /\ Val(param) # <<>> THEN Range(params_to_ints(Val(param)).ints)
    ELSE {}

\* The filter parameters of a detail request all parse.
WellFormedQuery(resp) ==
    IF resp.kind = "recipes"
    THEN ~Malformed(resp.query.tags) /\ ~Malformed(resp.query.ingredients)
    ELSE ~Present(resp.query.assigned_only) \/ IsInteger(Val(resp.query.assigned_only))

\* Every record in a successful response belongs to the caller.
OwnBody ==
    response.status \in {200, 201} =>
        \A i \in 1..Len(response.body) :
            /\ \E r \in TableOf(response.kind) :
                  r.id = response.body[i].id /\ r.user = response.user
            /\ response.kind = "recipes" =>
                  \A k \in Kinds : \A b \in response.body[i][k] :
                      \E l \in label[k] : l.id = b.id /\ l.user = response.user

\* The request answered by resp addressed a record of another user.
CrossOwner(resp) ==
    /\ resp.op \in {"retrieve", "update", "destroy"}
    /\ \E r \in TableOf(resp.kind) : r.id = resp.pk /\ r.user # resp.user

SameLabel(kind, l) == {x \in label[kind] : x.user = l.user /\ x.name = l.name}

AllIdle == \A w \in Workers : inflight[w].pc = "idle"

\* C2: once the concurrent create/update requests have ended, every
\* (owner, name) they resolved has exactly one label row.
C2_OneRowPerOwnerName ==
    AllIdle => \A kind \in Kinds : \A l \in label[kind] : Cardinality(SameLabel(kind, l)) = 1

\* C3: a recipe update that omits tags (ingredients) leaves the recipe's
\* tags (ingredients) as they were, also when only the other field is
\* supplied; one that supplies an empty list clears them.
C3_TriState ==
    [][ (Idle /\ response'.op = "update" /\ response'.kind = "recipes") =>
            \A k \in Kinds :
                /\ ~Present(response'.data[k]) =>
                      related(assoc'[k], response'.pk) = related(assoc[k], response'.pk)
                /\ (response'.status = 200 /\ response'.data[k] = << <<>> >>) =>
                      related(assoc'[k], response'.pk) = {} ]_vars

\* C3 witness: an update with tags: [] and no ingredients key succeeded on a
\* recipe that keeps its ingredients.
C3_Witness ==
    /\ response.op = "update" /\ response.kind = "recipes" /\ response.status = 200
    /\ response.data.tags = << <<>> >>
    /\ ~Present(response.data.ingredients)
    /\ related(assoc["tags"], response.pk) = {}
    /\ related(assoc["ingredients"], response.pk) # {}

\* The caller's recipes that match the filters of a list request.
Matching(resp) ==
    {r.id : r \in {x \in recipe :
        /\ x.user = resp.user
        /\ \A k \in Kinds :
              FilterIds(resp.query[k]) # {} =>
                  related(assoc[k], x.id) \cap FilterIds(resp.query[k]) # {}}}

\* C4: the recipe list holds exactly the caller's recipes with a tag among
\* tag_ids and an ingredient among ingredient_ids (each when given), every
\* one once, by id descending.
C4_ListFiltered ==
    (response.op = "list" /\ response.kind = "recipes" /\ response.status = 200) =>
        /\ {response.body[i].id : i \in 1..Len(response.body)} = Matching(response)
        /\ \A i, j \in 1..Len(response.body) :
              i < j => response.body[i].id > response.body[j].id

\* C4 witness: a list filtered by tags=1,2 returned a recipe that has both.
C4_Witness ==
    /\ response.op = "list" /\ response.kind = "recipes" /\ response.status = 200
    /\ response.query.tags = << <<"1", ",", "2">> >>
    /\ \E i \in 1..Len(response.body) :
          {1, 2} \subseteq related(assoc["tags"], response.body[i].id)

\* C5: a recipe create or update that fails leaves recipes, labels and
\* associations as they were.
C5_NoPartialWrite ==
    [][ (Idle /\ response'.op \in {"create", "update"} /\ response'.kind = "recipes"
              /\ response'.status >= 400) =>
            UNCHANGED <<recipe, label, assoc>> ]_vars

\* C6: a recipe list whose tags or ingredients filter has a malformed
\* element is answered 400.
C6_MalformedFilterIs400 ==
    (response.op = "list" /\ response.kind = "recipes"
        /\ (Malformed(response.query.tags) \/ Malformed(response.query.ingredients))) =>
        response.status = 400

\* The caller's labels of a kind, as listed; attached ones only when asked.
Listed(resp, assigned) ==
    {l.id : l \in {x \in label[resp.kind] :
        /\ x.user = resp.user
        /\ assigned => \E m \in assoc[resp.kind] : m[2] = x.id}}

\* C7: on the tag and ingredient list, assigned_only absent or 0 lists all
\* of the caller's labels, 1 lists those attached to a recipe, and any other
\* value is answered with a client error.
C7_AssignedOnlyZeroOrOne ==
    (response.op = "list" /\ response.kind \in Kinds) =>
        LET v == response.query.assigned_only
        IN  IF ~Present(v) \/ v = << <<"0">> >>
            THEN /\ response.status = 200
                 /\ {response.body[i].id : i \in 1..Len(response.body)} =
                        Listed(response, FALSE)
            ELSE IF v = << <<"1">> >>
            THEN /\ response.status = 200
                 /\ {response.body[i].id : i \in 1..Len(response.body)} =
                        Listed(response, TRUE)
            ELSE response.status \in 400..499

\* C8: no response of the user API has a password field, and no value in
\* it is a password or the hash of one.
C8_PasswordNeverSerialized ==
    user_response.op # "none" =>
        /\ user_response.status \in {200, 201} => "password" \notin DOMAIN user_response.body
        /\ \A f \in DOMAIN user_response.body :
              /\ user_response.body[f] \notin Passwords
              /\ user_response.body[f] \notin {make_password(p) : p \in Passwords}

\* C8 witness: the response to a profile update that set a new password.
C8_Witness ==
    /\ user_response.op = "update"
    /\ user_response.status = 200
    /\ Present(user_response.data.password)
    /\ \E x \in users : x.id = user_response.user
                        /\ x.password = make_password(Val(user_response.data.password))

\* C9: every tag and ingredient attached to a recipe is a row owned by the
\* recipe's owner.
C9_LabelsOfSameOwner ==
    \A k \in Kinds : \A m \in assoc[k] :
        \E r \in recipe : \E l \in label[k] :
            r.id = m[1] /\ l.id = m[2] /\ r.user = l.user

\* C9 witness: two users each have a recipe with a tag of the same name.
C9_Witness ==
    \E a, b \in label["tags"] :
        /\ a.user # b.user /\ a.name = b.name
        /\ \E m, n \in assoc["tags"] : m[2] = a.id /\ n[2] = b.id

\* C10: no recipe create or update fails because get() found several rows
\* with the owner and name it looked up.
C10_LookupNeverAmbiguous ==
    (response.op \in {"create", "update"} /\ response.kind = "recipes"
        /\ response.status = 500) =>
        response.body # <<[error |-> "MultipleObjectsReturned"]>>

====
